---- MODULE Spec2Model ----
(***************************************************************************)
(* Model of the simulation engine of bd_autoflashfinder                    *)
(* (src/advanced_node_features.py): the transaction pool, the mining       *)
(* simulator, the nodes and the network simulator.  The engine is          *)
(* synchronous and single-threaded: an operation is one action, or a run   *)
(* of steps that no other operation interleaves with.  The GUI emulator    *)
(* (src/crypto_node_emulator_main.py) runs its handlers on the Tk main     *)
(* thread and one mine_process thread per mining request: a thread is a    *)
(* run of steps, one per statement that reads or writes shared state.      *)
(***************************************************************************)
EXTENDS Integers, Sequences, FiniteSets, TLC

VARIABLES
    transactions,     \* TransactionPool.transactions (list, insertion order)
    max_pool_size,    \* TransactionPool.max_pool_size
    poolCall,         \* observation: the last pool call, its argument, its return value, the pool before it
    difficulty,       \* MiningSimulator.difficulty
    current_nonce,    \* MiningSimulator.current_nonce
    target_hash,      \* MiningSimulator.target_hash (sequence of characters)
    sha256,           \* the hash function: data string -> hex digest, fixed for a behaviour
    mineCall,         \* observation: the last engine call, its argument, its return value, the fields before it
    seen,             \* observation: per payload, the target and return value of its latest mine_block call
    adjust_budget,    \* bound: number of adjust_difficulty calls the behaviour may still make
    search_pc,        \* position of a mine_block call: "idle" (no call running) or "loop" (in its while loop)
    search_data,      \* the block_data argument of the running mine_block call
    nodes,            \* NetworkSimulator.nodes (list of AdvancedBlockchainNode)
    network_load,     \* NetworkSimulator.network_load
    total_bandwidth,  \* NetworkSimulator.total_bandwidth
    tick,             \* position of a simulate_network_activity call: pc, node index, events left
    netCall,          \* observation: the last network call, its last step, its return value
    net_budget,       \* bound: number of update_metrics and simulate_network_activity calls the behaviour may still make
    is_running,       \* CryptoNodeEmulator.is_running
    gui_transactions, \* CryptoNodeEmulator.transactions (pending list of transaction ids)
    gui_blocks,       \* CryptoNodeEmulator.blocks
    message_queue,    \* CryptoNodeEmulator.message_queue (log entries, by their number of timestamps)
    miners,           \* the mine_process threads: position and local variables
    update_pc,        \* position of the update callback of update_gui: "idle" (scheduled), "drain" or "log"
    message,          \* the entry update took off the queue (0: none)
    next_tx           \* the id of the next transaction generate_transaction creates

vars == <<transactions, max_pool_size, poolCall,
          difficulty, current_nonce, target_hash, sha256, mineCall, seen, adjust_budget,
          search_pc, search_data,
          nodes, network_load, total_bandwidth, tick, netCall, net_budget,
          is_running, gui_transactions, gui_blocks, message_queue, miners, update_pc,
          message, next_tx>>

poolVars == <<transactions, max_pool_size, poolCall>>
mineVars == <<difficulty, current_nonce, target_hash, sha256, mineCall, seen, adjust_budget,
              search_pc, search_data>>
netVars == <<nodes, network_load, total_bandwidth, tick, netCall, net_budget>>
guiVars == <<is_running, gui_transactions, gui_blocks, message_queue, miners, update_pc,
             message, next_tx>>

----------------------------------------------------------------------------
(* Bounds *)

\* pool capacity of the model; the program's default is 10000
MaxPoolSize == 3

\* largest count passed to get_transactions_for_block
MaxCount == 4

\* the nonce limit of the model; the program's limit is 1000000
NonceLimit == 2

\* number of adjust_difficulty calls in one behaviour of SpecDifficulty
MaxAdjustments == 3

\* number of adjust_difficulty calls in one behaviour of SpecMine
MineAdjustments == 1

\* largest registry of the behaviours that run the simulation
MaxNodes == 2

\* largest registry get_network_statistics is applied to
MaxRegistry == 10

\* number of update_metrics and simulate_network_activity calls in one
\* behaviour of SpecMetrics
MaxNetCalls == 2

\* number of simulate_network_activity calls in one behaviour of SpecNet
MaxTicks == 1

\* number of blocks a node receives in one behaviour
MaxNewBlocks == 1

\* largest connection_count the behaviours raise a node to
MaxConnectionCount == 6

\* largest packet_loss, in tenths of a percent, the behaviours raise a node to
MaxPacketLoss == 60

\* capacity of the network of the model, in tenths of a MB/s; the program's
\* capacity is 1000 MB/s
TotalBandwidth == 150

\* number of mine_process threads one behaviour starts
MaxMiners == 2

\* number of transactions one behaviour generates
MaxTxs == 3

\* transactions a block takes in the model; the program takes 5
BlockTxLimit == 2

\* mining rounds of a thread in the model; the program sleeps 10 times
MineRounds == 1

\* log entries the queue of the model keeps; the program's queue is unbounded
MaxQueue == 4

\* timestamps counted on one log entry
MaxStamps == 4

----------------------------------------------------------------------------
(* Helpers *)

Min(a, b) == IF a < b THEN a ELSE b

Max(a, b) == IF a > b THEN a ELSE b

Range(s) == {s[i] : i \in 1..Len(s)}

\* Python's int(): truncation toward zero of the rational num/den, den > 0
Trunc(num, den) == IF num >= 0 THEN num \div den ELSE -((-num) \div den)

\* Python's "0" * n: the empty string for n <= 0
Zeros(n) == [i \in 1..Max(n, 0) |-> "0"]

\* StartsWith that also wants the run of the prefix to end right behind it
StartsWith_ExactRun(s, prefix) ==
    /\ Len(prefix) <= Len(s)
    /\ \A i \in 1..Len(prefix) : s[i] = prefix[i]
    /\ (Len(prefix) > 0 /\ Len(prefix) < Len(s)) => s[Len(prefix) + 1] # prefix[Len(prefix)]

\* str.startswith
StartsWith(s, prefix) ==
    /\ Len(prefix) <= Len(s)
    /\ \A i \in 1..Len(prefix) : s[i] = prefix[i]

----------------------------------------------------------------------------
(* TransactionPool *)

\* Transaction objects: tx_id is the object's identity, fee in units of 0.001
Transactions ==
    { [tx_id |-> 1, fee |-> 10],
      [tx_id |-> 2, fee |-> 50],
      [tx_id |-> 3, fee |-> 1],
      [tx_id |-> 4, fee |-> 10] }

NoTx == [tx_id |-> 0, fee |-> 0]

\* InsertByFee that puts x before the elements of equal fee (> for >=)
RECURSIVE InsertByFee_Unstable(_, _)
InsertByFee_Unstable(s, x) ==
    IF s = <<>> THEN <<x>>
    ELSE IF Head(s).fee > x.fee THEN <<Head(s)>> \o InsertByFee_Unstable(Tail(s), x)
    ELSE <<x>> \o s

\* insert x behind every element whose fee is at least x.fee
RECURSIVE InsertByFee(_, _)
InsertByFee(s, x) ==
    IF s = <<>> THEN <<x>>
    ELSE IF Head(s).fee >= x.fee THEN <<Head(s)>> \o InsertByFee(Tail(s), x)
    ELSE <<x>> \o s

\* sorted(txs, key=lambda x: x.fee, reverse=True): stable, descending by fee
RECURSIVE SortedByFeeDesc(_)
SortedByFeeDesc(txs) ==
    IF txs = <<>> THEN <<>>
    ELSE InsertByFee(SortedByFeeDesc(SubSeq(txs, 1, Len(txs) - 1)), txs[Len(txs)])

\* s[:count]
SlicePrefix(s, count) ==
    IF count >= 0 THEN SubSeq(s, 1, Min(count, Len(s)))
    ELSE SubSeq(s, 1, Max(Len(s) + count, 0))

\* list.remove(x): drops the first element equal to x
RECURSIVE ListRemove(_, _)
ListRemove(s, x) ==
    IF s = <<>> THEN <<>>
    ELSE IF Head(s) = x THEN Tail(s)
    ELSE <<Head(s)>> \o ListRemove(Tail(s), x)

\* for tx in selected_txs: self.transactions.remove(tx)
RECURSIVE RemoveAll(_, _)
RemoveAll(pool, selected) ==
    IF selected = <<>> THEN pool
    ELSE RemoveAll(ListRemove(pool, Head(selected)), Tail(selected))

SelectedTxs(pool, count) == SlicePrefix(SortedByFeeDesc(pool), count)

PoolInit ==
    /\ transactions = <<>>
    /\ max_pool_size = MaxPoolSize
    /\ poolCall = [op |-> "init", tx |-> NoTx, count |-> 0, accepted |-> FALSE,
                   selected |-> <<>>, before |-> <<>>]

\* add_transaction with the capacity test off by one (<= for <)
add_transaction_OffByOne(tx) ==
    /\ IF Len(transactions) <= max_pool_size
       THEN /\ transactions' = Append(transactions, tx)
            /\ poolCall' = [op |-> "add", tx |-> tx, count |-> 0, accepted |-> TRUE,
                            selected |-> <<>>, before |-> transactions]
       ELSE /\ transactions' = transactions
            /\ poolCall' = [op |-> "add", tx |-> tx, count |-> 0, accepted |-> FALSE,
                            selected |-> <<>>, before |-> transactions]
    /\ UNCHANGED max_pool_size

add_transaction(tx) ==
    /\ IF Len(transactions) < max_pool_size
       THEN /\ transactions' = Append(transactions, tx)
            /\ poolCall' = [op |-> "add", tx |-> tx, count |-> 0, accepted |-> TRUE,
                            selected |-> <<>>, before |-> transactions]
       ELSE /\ transactions' = transactions
            /\ poolCall' = [op |-> "add", tx |-> tx, count |-> 0, accepted |-> FALSE,
                            selected |-> <<>>, before |-> transactions]
    /\ UNCHANGED max_pool_size

get_transactions_for_block(count) ==
    LET selected_txs == SelectedTxs(transactions, count) IN
    /\ transactions' = RemoveAll(transactions, selected_txs)
    /\ poolCall' = [op |-> "select", tx |-> NoTx, count |-> count, accepted |-> FALSE,
                    selected |-> selected_txs, before |-> transactions]
    /\ UNCHANGED max_pool_size

AddTransaction == \E tx \in Transactions : add_transaction(tx)

GetTransactionsForBlock == \E count \in (-1)..MaxCount : get_transactions_for_block(count)

----------------------------------------------------------------------------
(* MiningSimulator *)

\* block_data arguments
Payloads == { <<"a">>, <<"b">> }

DigitChars == <<"0", "1", "2", "3", "4", "5", "6", "7", "8", "9">>

\* the f-string conversion of a non-negative int: its decimal digits
RECURSIVE ToStr(_)
ToStr(n) ==
    IF n < 10 THEN <<DigitChars[n + 1]>>
    ELSE ToStr(n \div 10) \o <<DigitChars[(n % 10) + 1]>>

\* f"{block_data}{self.current_nonce}"
DataToHash(block_data, nonce) == block_data \o ToStr(nonce)

\* length of the hex digests of the model
DigestLen == 6

\* numbers of leading zero characters of the digests of the model
LeadingZeros == {0, 1, 4}

\* a hex digest with exactly z leading zero characters
Digest(z) == [i \in 1..DigestLen |-> IF i <= z THEN "0" ELSE "f"]

HexDigests == { Digest(z) : z \in LeadingZeros }

\* every string the search can hash, and the one at the limit itself
DataStrings == { DataToHash(p, n) : p \in Payloads, n \in 0..NonceLimit }

NoResult == [found |-> FALSE, hash |-> <<>>, nonce |-> 0]

NotSeen == [called |-> FALSE, target |-> <<>>, ret |-> NoResult]

\* the initial target_hash: "0" * 4
InitialTarget == Zeros(4)

\* TargetFor without the + 1
TargetFor_NoPlusOne(d) == Zeros(d \div 1000000)

\* the target adjust_difficulty sets: "0" * (difficulty // 1000000 + 1)
TargetFor(d) == Zeros((d \div 1000000) + 1)

\* the while loop of mine_block from cursor nonce: the return value and the
\* final cursor
RECURSIVE MineLoop(_, _, _, _)
MineLoop(hashfn, target, block_data, nonce) ==
    IF nonce < NonceLimit
    THEN LET block_hash == hashfn[DataToHash(block_data, nonce)] IN
         IF StartsWith(block_hash, target)
         THEN [ret |-> [found |-> TRUE, hash |-> block_hash, nonce |-> nonce],
               cursor |-> nonce]
         ELSE MineLoop(hashfn, target, block_data, nonce + 1)
    ELSE [ret |-> NoResult, cursor |-> nonce]

\* AdjustedDifficulty with both comparisons inclusive (<= for <, >= for >)
AdjustedDifficulty_Inclusive(d, block_time) ==
    IF 2 * block_time <= 600 THEN Trunc(3 * d, 2)
    ELSE IF block_time >= 600 * 2 THEN Trunc(3 * d, 4)
    ELSE d

\* AdjustedDifficulty rounding to nearest where the code truncates
AdjustedDifficulty_Rounded(d, block_time) ==
    IF 2 * block_time < 600 THEN Trunc(3 * d + 1, 2)
    ELSE IF block_time > 600 * 2 THEN Trunc(3 * d + 2, 4)
    ELSE d

\* the difficulty adjust_difficulty leaves
AdjustedDifficulty(d, block_time) ==
    IF 2 * block_time < 600 THEN Trunc(3 * d, 2)
    ELSE IF block_time > 600 * 2 THEN Trunc(3 * d, 4)
    ELSE d

\* the default difficulty of the constructor
DefaultDifficulty == 1000000

\* difficulty arguments of the constructor
InitialDifficulties == {1, 2, 3, 999999, DefaultDifficulty}

\* a hash function under which every digest has z leading zero characters
ConstantHash(z) == [s \in DataStrings |-> Digest(z)]

\* a hash function whose digests have no leading zero at nonce 0 and four at
\* every later nonce
LateHash == [s \in DataStrings |-> IF s[Len(s)] = "0" THEN Digest(0) ELSE Digest(4)]

SampleHashes == { ConstantHash(z) : z \in LeadingZeros } \cup { LateHash }

\* block_time arguments
BlockTimes == {100, 300, 600, 1200, 1300}

\* MiningSimulator(difficulty), with the hash function hashfn
MineInit(d, hashfn, budget) ==
    /\ difficulty = d
    /\ current_nonce = 0
    /\ target_hash = InitialTarget
    /\ sha256 = hashfn
    /\ mineCall = [op |-> "init", block_data |-> <<>>, block_time |-> 0, ret |-> NoResult,
                   old_difficulty |-> d]
    /\ seen = [p \in Payloads |-> NotSeen]
    /\ adjust_budget = budget
    /\ search_pc = "idle"
    /\ search_data = <<>>

mine_block(block_data) ==
    LET run == MineLoop(sha256, target_hash, block_data, current_nonce) IN
    /\ current_nonce' = run.cursor
    /\ mineCall' = [op |-> "mine", block_data |-> block_data, block_time |-> 0,
                    ret |-> run.ret, old_difficulty |-> difficulty]
    /\ seen' = [seen EXCEPT ![block_data] =
                    [called |-> TRUE, target |-> target_hash, ret |-> run.ret]]
    /\ UNCHANGED <<difficulty, target_hash, sha256, adjust_budget, search_pc, search_data>>

adjust_difficulty(block_time) ==
    /\ adjust_budget > 0
    /\ difficulty' = AdjustedDifficulty(difficulty, block_time)
    /\ target_hash' = TargetFor(difficulty')
    /\ mineCall' = [op |-> "adjust", block_data |-> <<>>, block_time |-> block_time,
                    ret |-> NoResult, old_difficulty |-> difficulty]
    /\ adjust_budget' = adjust_budget - 1
    /\ UNCHANGED <<current_nonce, sha256, seen, search_pc, search_data>>

MineBlock == \E block_data \in Payloads : mine_block(block_data)

\* the loop test with the limit included (<= for <)
WithinLimit_Inclusive(nonce) == nonce <= NonceLimit

\* the test of the while loop: self.current_nonce < 1000000
WithinLimit(nonce) == nonce < NonceLimit

\* mine_block, one loop iteration per step: the call is entered
begin_mine(block_data) ==
    /\ search_pc = "idle"
    /\ search_pc' = "loop"
    /\ search_data' = block_data
    /\ UNCHANGED <<difficulty, current_nonce, target_hash, sha256, mineCall, seen,
                   adjust_budget>>

\* mine_block returns ret to its caller
return_from_mine(ret) ==
    /\ search_pc' = "idle"
    /\ mineCall' = [op |-> "mine", block_data |-> search_data, block_time |-> 0,
                    ret |-> ret, old_difficulty |-> difficulty]
    /\ seen' = [seen EXCEPT ![search_data] =
                    [called |-> TRUE, target |-> target_hash, ret |-> ret]]
    /\ UNCHANGED <<difficulty, current_nonce, target_hash, sha256, adjust_budget,
                   search_data>>

\* one test of the loop condition and, when it holds, one iteration
mine_step ==
    /\ search_pc = "loop"
    /\ IF WithinLimit(current_nonce)
       THEN LET block_hash == sha256[DataToHash(search_data, current_nonce)] IN
            IF StartsWith(block_hash, target_hash)
            THEN return_from_mine([found |-> TRUE, hash |-> block_hash,
                                   nonce |-> current_nonce])
            ELSE /\ current_nonce' = current_nonce + 1
                 /\ UNCHANGED <<difficulty, target_hash, sha256, mineCall, seen,
                                adjust_budget, search_pc, search_data>>
       ELSE return_from_mine(NoResult)

BeginMine == \E block_data \in Payloads : begin_mine(block_data)

AdjustDifficulty == \E block_time \in BlockTimes : adjust_difficulty(block_time)

----------------------------------------------------------------------------
(* AdvancedBlockchainNode.  latency (ms), bandwidth and network_io (MB/s),  *)
(* uptime, packet_loss and cpu_usage (percent) and memory_usage (MB) are    *)
(* counted in tenths of their unit.                                         *)

\* a clamp that has lost its upper limit
Clamp_NoUpper(lo, hi, x) == Max(lo, x)

\* max(lo, min(hi, x))
Clamp(lo, hi, x) == Max(lo, Min(hi, x))

\* the smallest block_height of a constructed node: random.randint(100000, 999999)
MinBlockHeight == 100000

\* a node as the constructor leaves it, every draw at the low end of its range
ConstructedLow ==
    [status |-> "online", block_height |-> MinBlockHeight, connection_count |-> 5,
     latency |-> 100, bandwidth |-> 10, packet_loss |-> 0, uptime |-> 950,
     cpu_usage |-> 50, memory_usage |-> 1000, network_io |-> 1]

\* a node as the constructor leaves it, the metrics at the high end of their range
ConstructedHigh ==
    [status |-> "online", block_height |-> MinBlockHeight, connection_count |-> 5,
     latency |-> 2000, bandwidth |-> 1000, packet_loss |-> 50, uptime |-> 999,
     cpu_usage |-> 800, memory_usage |-> 20000, network_io |-> 100]

ConstructedNodes == {ConstructedLow, ConstructedHigh}

\* a node after many updates that drew low: the metrics next to or at their floors
AgedLow ==
    [ConstructedLow EXCEPT !.latency = 30, !.bandwidth = 1, !.cpu_usage = 10,
                           !.memory_usage = 550]

\* a node after many updates that drew high and a tick with congestion: the
\* metrics next to their ceilings, the latency above its ceiling
AgedHigh ==
    [ConstructedHigh EXCEPT !.latency = 5400, !.bandwidth = 1995, !.cpu_usage = 990,
                            !.memory_usage = 39950, !.packet_loss = 30]

\* the nodes of the initial registries
NodeSamples == {ConstructedLow, ConstructedHigh, AgedLow, AgedHigh}

\* draws of one update_metrics call: random.uniform(-5, 5), (-1, 1), (-2, 2) and
\* (-10, 10), in tenths, and whether random.random() < 0.1.  Every metric down
\* by the most:
DrawDown ==
    [delta |-> [latency |-> -50, bandwidth |-> -10, cpu_usage |-> -20,
                memory_usage |-> -100], new_block |-> FALSE]

\* every metric up by the most
DrawUp ==
    [delta |-> [latency |-> 50, bandwidth |-> 10, cpu_usage |-> 20,
                memory_usage |-> 100], new_block |-> FALSE]

\* small changes of either sign
DrawCalm ==
    [delta |-> [latency |-> -13, bandwidth |-> 4, cpu_usage |-> 0,
                memory_usage |-> 7], new_block |-> FALSE]

\* a new block arrives, the metrics move apart
DrawBlock ==
    [delta |-> [latency |-> 50, bandwidth |-> -10, cpu_usage |-> 20,
                memory_usage |-> -100], new_block |-> TRUE]

MetricDraws == {DrawDown, DrawUp, DrawCalm, DrawBlock}

\* update_metrics with a new block counted twice
update_metrics_DoubleBlock(node, d) ==
    [node EXCEPT
        !.latency = Clamp(10, 5000, @ + d.delta.latency),
        !.bandwidth = Clamp(1, 2000, @ + d.delta.bandwidth),
        !.cpu_usage = Clamp(0, 1000, @ + d.delta.cpu_usage),
        !.memory_usage = Clamp(500, 40000, @ + d.delta.memory_usage),
        !.block_height = IF d.new_block THEN @ + 2 ELSE @]

\* AdvancedBlockchainNode.update_metrics with the draws d
update_metrics(node, d) ==
    [node EXCEPT
        !.latency = Clamp(10, 5000, @ + d.delta.latency),
        !.bandwidth = Clamp(1, 2000, @ + d.delta.bandwidth),
        !.cpu_usage = Clamp(0, 1000, @ + d.delta.cpu_usage),
        !.memory_usage = Clamp(500, 40000, @ + d.delta.memory_usage),
        !.block_height = IF d.new_block THEN @ + 1 ELSE @]

----------------------------------------------------------------------------
(* NetworkSimulator *)

RECURSIVE SeqSum(_)
\* sum(...) over a list of numbers
SeqSum(s) == IF Len(s) = 0 THEN 0 ELSE s[1] + SeqSum(Tail(s))

\* every node, whatever its status
OnlineNodes_All(ns) == ns

\* [n for n in self.nodes if n.status == "online"]
OnlineNodes(ns) == SelectSeq(ns, LAMBDA n : n.status = "online")

\* round(num / den, 0) for den > 0: the nearest integer; a value halfway between
\* two integers goes to either, as the binary representation of the quotient
\* falls on either side of the half
Round(num, den) ==
    LET below == IF num >= 0 THEN num \div den ELSE -(((-num) + den - 1) \div den) IN
    {r \in {below, below + 1} : 2 * (r * den - num) <= den /\ 2 * (num - r * den) <= den}

\* the labels of _calculate_network_health: "Otlichnoe", "Khoroshee",
\* "Udovletvoritel'noe", "Plokhoe" in the source's Cyrillic
HealthLabels == [excellent |-> "excellent", good |-> "good", fair |-> "fair",
                 poor |-> "poor"]

\* the outcome of a division by zero
ZeroDivisionError == "ZeroDivisionError"

\* health with the thresholds excluded (> for >=)
calculate_network_health_Strict(ns) ==
    LET online == Len(OnlineNodes(ns)) total == Len(ns) IN
    IF total = 0 THEN ZeroDivisionError
    ELSE IF 10 * online > 9 * total THEN HealthLabels.excellent
    ELSE IF 10 * online > 7 * total THEN HealthLabels.good
    ELSE IF 10 * online > 5 * total THEN HealthLabels.fair
    ELSE HealthLabels.poor

\* NetworkSimulator._calculate_network_health: online_ratio = online / total,
\* compared with 0.9, 0.7 and 0.5
calculate_network_health(ns) ==
    LET online == Len(OnlineNodes(ns)) total == Len(ns) IN
    IF total = 0 THEN ZeroDivisionError
    ELSE IF 10 * online >= 9 * total THEN HealthLabels.excellent
    ELSE IF 10 * online >= 7 * total THEN HealthLabels.good
    ELSE IF 10 * online >= 5 * total THEN HealthLabels.fair
    ELSE HealthLabels.poor

\* the return value of a call that returns no statistics
NoStatistics ==
    [fault |-> FALSE, total_nodes |-> 0, online_nodes |-> 0, network_load_percent |-> 0,
     average_latency |-> 0, average_bandwidth |-> 0, total_connections |-> 0,
     network_health |-> ""]

\* get_network_statistics left by the exception of _calculate_network_health
StatisticsFault == [NoStatistics EXCEPT !.fault = TRUE, !.network_health = ZeroDivisionError]

\* round(sum(values) / len(values), 1) if values else 0
AverageOf(values) ==
    IF Len(values) > 0 THEN Round(SeqSum(values), Len(values)) ELSE {0}

\* NetworkSimulator.get_network_statistics: the values it can return for the
\* registry ns, the load and the capacity
get_network_statistics(ns, load, total) ==
    LET online_nodes == OnlineNodes(ns)
        health == calculate_network_health(ns) IN
    IF health = ZeroDivisionError THEN {StatisticsFault}
    ELSE {[fault |-> FALSE,
           total_nodes |-> Len(ns),
           online_nodes |-> Len(online_nodes),
           network_load_percent |-> pct,
           average_latency |-> lat,
           average_bandwidth |-> bw,
           total_connections |->
               SeqSum([i \in 1..Len(online_nodes) |-> online_nodes[i].connection_count]),
           network_health |-> health] :
          pct \in Round(load * 1000, total),
          lat \in AverageOf([i \in 1..Len(online_nodes) |-> online_nodes[i].latency]),
          bw \in AverageOf([i \in 1..Len(online_nodes) |-> online_nodes[i].bandwidth])}

\* the load summed over the online nodes only
NetworkLoad_OnlineOnly(ns, total) ==
    Min(total, SeqSum([i \in 1..Len(OnlineNodes(ns)) |-> OnlineNodes(ns)[i].network_io]))

\* min(self.total_bandwidth, sum(node.node_metrics.network_io for node in self.nodes))
NetworkLoad(ns, total) ==
    Min(total, SeqSum([i \in 1..Len(ns) |-> ns[i].network_io]))

\* the events list of _simulate_network_events
EventKinds == {"node_connection", "node_disconnection", "network_congestion",
               "packet_loss", "bandwidth_fluctuation"}

\* random.randint(1, 3): the number of events of one tick
EventCounts == 1..3

\* a connection that brings the node back online
simulate_node_connection_Revives(ns, i) ==
    IF Len(ns) >= 2
    THEN [ns EXCEPT ![i].connection_count = @ + 1, ![i].uptime = Min(999, @ + 1),
                    ![i].status = "online"]
    ELSE ns

\* _simulate_node_connection, random.choice picking node i
simulate_node_connection(ns, i) ==
    IF Len(ns) >= 2
    THEN [ns EXCEPT ![i].connection_count = @ + 1, ![i].uptime = Min(999, @ + 1)]
    ELSE ns

\* a disconnection whose decrement has no floor
simulate_node_disconnection_NoFloor(ns, i, disconnects) ==
    IF Len(ns) >= 1 /\ disconnects
    THEN [ns EXCEPT ![i].status = "offline", ![i].connection_count = @ - 1]
    ELSE ns

\* _simulate_node_disconnection, random.choice picking node i and
\* random.random() < 0.1 being disconnects
simulate_node_disconnection(ns, i, disconnects) ==
    IF Len(ns) >= 1 /\ disconnects
    THEN [ns EXCEPT ![i].status = "offline", ![i].connection_count = Max(0, @ - 1)]
    ELSE ns

\* the draws of _simulate_network_congestion for one node: random.uniform(10, 50)
\* and random.uniform(0.1, 1.0), in tenths
CongestionDraws == {[latency |-> 100, packet_loss |-> 1],
                    [latency |-> 500, packet_loss |-> 10]}

\* the draws of one congestion event, one per node, taken from draws: the same
\* for every node, or one for the first node and another for the others
CongestionDrawVectors(ns, draws) ==
    {[i \in 1..Len(ns) |-> IF i = 1 THEN d1 ELSE d2] : d1 \in draws, d2 \in draws}

\* congestion that reaches the online nodes only
simulate_network_congestion_OnlineOnly(ns, ds) ==
    [i \in 1..Len(ns) |->
        IF ns[i].status = "online"
        THEN [ns[i] EXCEPT !.latency = @ + ds[i].latency,
                           !.packet_loss = @ + ds[i].packet_loss]
        ELSE ns[i]]

\* _simulate_network_congestion with the draws ds
simulate_network_congestion(ns, ds) ==
    [i \in 1..Len(ns) |-> [ns[i] EXCEPT !.latency = @ + ds[i].latency,
                                        !.packet_loss = @ + ds[i].packet_loss]]

\* no simulate_network_activity call is running
IdleTick == [pc |-> "idle", idx |-> 0, left |-> 0]

\* NetworkSimulator(), its registry filled to ns and its load left at load by
\* earlier calls
NetInit(ns, load, budget) ==
    /\ nodes = ns
    /\ network_load = load
    /\ total_bandwidth = TotalBandwidth
    /\ tick = IdleTick
    /\ netCall = [op |-> "init", last |-> "", node |-> 0, ret |-> NoStatistics]
    /\ net_budget = budget

\* the draws d keep the node within the block heights of the model
WithinBlocks(node, d) ==
    d.new_block => node.block_height < MinBlockHeight + MaxNewBlocks

\* NetworkSimulator.add_node, for registries up to the size limit
add_node(node, limit) ==
    /\ tick.pc = "idle"
    /\ Len(nodes) < limit
    /\ nodes' = Append(nodes, node)
    /\ netCall' = [op |-> "add_node", last |-> "", node |-> Len(nodes) + 1,
                   ret |-> NoStatistics]
    /\ UNCHANGED <<network_load, total_bandwidth, tick, net_budget>>

\* update_metrics called on the registered node i, outside a tick
node_update_metrics(i, d) ==
    /\ tick.pc = "idle"
    /\ net_budget > 0
    /\ WithinBlocks(nodes[i], d)
    /\ nodes' = [nodes EXCEPT ![i] = update_metrics(@, d)]
    /\ net_budget' = net_budget - 1
    /\ netCall' = [op |-> "update_metrics", last |-> "update_metrics", node |-> i,
                   ret |-> NoStatistics]
    /\ UNCHANGED <<network_load, total_bandwidth, tick>>

\* get_network_statistics called outside a tick
statistics ==
    /\ tick.pc = "idle"
    /\ \E ret \in get_network_statistics(nodes, network_load, total_bandwidth) :
          netCall' = [op |-> "get_network_statistics", last |-> "", node |-> 0,
                      ret |-> ret]
    /\ UNCHANGED <<nodes, network_load, total_bandwidth, tick, net_budget>>

\* simulate_network_activity, step by step: the call is entered
begin_tick ==
    /\ tick.pc = "idle"
    /\ net_budget > 0
    /\ net_budget' = net_budget - 1
    /\ tick' = [pc |-> "update", idx |-> 1, left |-> 0]
    /\ netCall' = [op |-> "simulate_network_activity", last |-> "", node |-> 0,
                   ret |-> NoStatistics]
    /\ UNCHANGED <<nodes, network_load, total_bandwidth>>

\* one iteration of: for node in self.nodes: node.update_metrics()
tick_update(d) ==
    /\ tick.pc = "update"
    /\ tick.idx <= Len(nodes)
    /\ WithinBlocks(nodes[tick.idx], d)
    /\ nodes' = [nodes EXCEPT ![tick.idx] = update_metrics(@, d)]
    /\ tick' = [tick EXCEPT !.idx = @ + 1]
    /\ netCall' = [netCall EXCEPT !.last = "update_metrics", !.node = tick.idx]
    /\ UNCHANGED <<network_load, total_bandwidth, net_budget>>

\* the load is set once every node is updated, and _simulate_network_events
\* draws its number of events
tick_load(count) ==
    /\ tick.pc = "update"
    /\ tick.idx > Len(nodes)
    /\ network_load' = NetworkLoad(nodes, total_bandwidth)
    /\ tick' = [pc |-> "events", idx |-> 0, left |-> count]
    /\ netCall' = [netCall EXCEPT !.last = "network_load", !.node = 0]
    /\ UNCHANGED <<nodes, total_bandwidth, net_budget>>

\* the connection and congestion draws keep the nodes within the counters of
\* the model
WithinCounters(ns) ==
    \A i \in 1..Len(ns) :
        /\ ns[i].connection_count <= MaxConnectionCount
        /\ ns[i].packet_loss <= MaxPacketLoss

\* the node random.choice(self.nodes) picks where the event calls it
Picks(kind) ==
    IF \/ kind = "node_connection" /\ Len(nodes) >= 2
       \/ kind = "node_disconnection" /\ Len(nodes) >= 1
    THEN 1..Len(nodes) ELSE {0}

\* one iteration of the loop of _simulate_network_events: the event drawn, the
\* node picked, whether a disconnection takes effect, the congestion draws;
\* the call returns after its last event
tick_event(kind, i, disconnects, ds) ==
    /\ tick.pc = "events"
    /\ i \in Picks(kind)
    /\ nodes' = CASE kind = "node_connection" -> simulate_node_connection(nodes, i)
                  [] kind = "node_disconnection" ->
                         simulate_node_disconnection(nodes, i, disconnects)
                  [] kind = "network_congestion" -> simulate_network_congestion(nodes, ds)
                  [] OTHER -> nodes
    /\ WithinCounters(nodes')
    /\ tick' = IF tick.left = 1 THEN IdleTick ELSE [tick EXCEPT !.left = @ - 1]
    /\ netCall' = [netCall EXCEPT !.last = kind, !.node = i]
    /\ UNCHANGED <<network_load, total_bandwidth, net_budget>>

AddNode(limit) == \E node \in ConstructedNodes : add_node(node, limit)

NodeUpdateMetrics(draws) ==
    \E i \in 1..Len(nodes), d \in draws : node_update_metrics(i, d)

TickUpdate(draws) == \E d \in draws : tick_update(d)

TickLoad == \E count \in EventCounts : tick_load(count)

\* an event of one of the kinds, with the draws that kind makes
TickEvent(kinds, draws) ==
    \E kind \in kinds :
        \E i \in Picks(kind),
           disconnects \in IF kind = "node_disconnection" THEN BOOLEAN ELSE {FALSE},
           ds \in IF kind = "network_congestion"
                  THEN CongestionDrawVectors(nodes, draws) ELSE {<<>>} :
            tick_event(kind, i, disconnects, ds)

----------------------------------------------------------------------------
(* CryptoNodeEmulator (src/crypto_node_emulator_main.py).  A transaction is  *)
(* its id, a block hash is the number of the thread that drew it: uuid4      *)
(* gives every transaction and every block a hash of its own.                *)

\* the height of the first block: len(self.blocks) + 789456 with no block yet
GenesisHeight == 789456

\* prev_hash of the first block, "0" * 64
GenesisPrevHash == 0

MinerIds == 1..MaxMiners

\* a thread that was not started
NoMiner == [pc |-> "none", i |-> 0, height |-> 0, prev_hash |-> 0, block_txs |-> <<>>,
            rest |-> <<>>]

\* s[-k:] for 0 <= k <= len(s); s[-0:] is the whole list
LastSlice(s, k) == IF k = 0 THEN s ELSE SubSeq(s, Len(s) - k + 1, Len(s))

\* s[:-k] for k >= 0; s[:-0] is the empty list
DropLast(s, k) == IF k = 0 THEN <<>> ELSE SubSeq(s, 1, Len(s) - k)

\* message_queue.put(log_entry): the entry carries the timestamp of
\* add_log_message before the message
Put(q, stamps) == IF Len(q) < MaxQueue THEN Append(q, stamps) ELSE q

RECURSIVE Log(_, _)
\* n calls of add_log_message with a plain message
Log(q, n) == IF n = 0 THEN q ELSE Log(Put(q, 1), n - 1)

\* CryptoNodeEmulator.__init__
GuiInit ==
    /\ is_running = FALSE
    /\ gui_transactions = <<>>
    /\ gui_blocks = <<>>
    /\ message_queue = <<>>
    /\ miners = [m \in MinerIds |-> NoMiner]
    /\ update_pc = "idle"
    /\ message = 0
    /\ next_tx = 1

\* start_node, its button enabled while the node is stopped
start_node ==
    /\ update_pc = "idle"
    /\ ~is_running
    /\ is_running' = TRUE
    /\ message_queue' = Log(message_queue, 2)
    /\ UNCHANGED <<gui_transactions, gui_blocks, miners, update_pc, message, next_tx>>

\* stop_node, its button enabled while the node runs
stop_node ==
    /\ update_pc = "idle"
    /\ is_running
    /\ is_running' = FALSE
    /\ message_queue' = Log(message_queue, 1)
    /\ UNCHANGED <<gui_transactions, gui_blocks, miners, update_pc, message, next_tx>>

\* generate_transaction on a running node
generate_transaction ==
    /\ update_pc = "idle"
    /\ is_running
    /\ next_tx <= MaxTxs
    /\ gui_transactions' = Append(gui_transactions, next_tx)
    /\ next_tx' = next_tx + 1
    /\ message_queue' = Log(message_queue, 3)
    /\ UNCHANGED <<is_running, gui_blocks, miners, update_pc, message>>

\* mine_block on a running node with pending transactions: thread m is started
gui_mine_block(m) ==
    /\ update_pc = "idle"
    /\ is_running
    /\ gui_transactions # <<>>
    /\ miners[m].pc = "none"
    /\ \A k \in MinerIds : k < m => miners[k].pc # "none"
    /\ miners' = [miners EXCEPT ![m] = [NoMiner EXCEPT !.pc = "loop"]]
    /\ message_queue' = Log(message_queue, 1)
    /\ UNCHANGED <<is_running, gui_transactions, gui_blocks, update_pc, message, next_tx>>

\* one step of thread m of mine_process: a statement that reads or writes
\* state the threads share
mine_process(m) ==
    LET t == miners[m] IN
    /\ t.pc \notin {"none", "done"}
    /\ CASE t.pc = "loop" ->
              \* for i in range(10): if not self.is_running: break
              IF t.i < MineRounds /\ is_running
              THEN /\ miners' = [miners EXCEPT ![m].i = t.i + 1]
                   /\ message_queue' = Log(message_queue, 1)
                   /\ UNCHANGED <<gui_transactions, gui_blocks>>
              ELSE /\ miners' = [miners EXCEPT ![m].pc = "check"]
                   /\ UNCHANGED <<gui_transactions, gui_blocks, message_queue>>
         [] t.pc = "check" ->
              \* if self.is_running:
              /\ miners' = [miners EXCEPT ![m].pc = IF is_running THEN "height" ELSE "done"]
              /\ UNCHANGED <<gui_transactions, gui_blocks, message_queue>>
         [] t.pc = "height" ->
              /\ miners' = [miners EXCEPT ![m].pc = "prev_hash",
                                          ![m].height = Len(gui_blocks) + GenesisHeight]
              /\ UNCHANGED <<gui_transactions, gui_blocks, message_queue>>
         [] t.pc = "prev_hash" ->
              /\ miners' = [miners EXCEPT
                              ![m].pc = "block_txs",
                              ![m].prev_hash = IF gui_blocks # <<>>
                                               THEN gui_blocks[Len(gui_blocks)].block_hash
                                               ELSE GenesisPrevHash]
              /\ UNCHANGED <<gui_transactions, gui_blocks, message_queue>>
         [] t.pc = "block_txs" ->
              /\ miners' = [miners EXCEPT
                              ![m].pc = "slice",
                              ![m].block_txs =
                                  LastSlice(gui_transactions,
                                            Min(BlockTxLimit, Len(gui_transactions)))]
              /\ UNCHANGED <<gui_transactions, gui_blocks, message_queue>>
         [] t.pc = "slice" ->
              \* self.transactions[:-len(block_txs)] is built from the list as
              \* it is now, and assigned in the next step
              /\ miners' = [miners EXCEPT
                              ![m].pc = "assign",
                              ![m].rest = DropLast(gui_transactions, Len(t.block_txs))]
              /\ UNCHANGED <<gui_transactions, gui_blocks, message_queue>>
         [] t.pc = "assign" ->
              /\ gui_transactions' = t.rest
              /\ miners' = [miners EXCEPT ![m].pc = "append", ![m].rest = <<>>]
              /\ UNCHANGED <<gui_blocks, message_queue>>
         [] t.pc = "append" ->
              /\ gui_blocks' = Append(gui_blocks,
                                      [block_hash |-> m, height |-> t.height,
                                       prev_hash |-> t.prev_hash,
                                       transactions |-> t.block_txs])
              /\ message_queue' = Log(message_queue, 3)
              /\ miners' = [miners EXCEPT ![m].pc = "done"]
              /\ UNCHANGED gui_transactions
    /\ UNCHANGED <<is_running, update_pc, message, next_tx>>

\* node_process: the background thread of a running node logs an event.  It
\* sleeps 1 to 3 seconds between two events, so its entries are on the queue
\* before a call of update starts
node_process ==
    /\ update_pc = "idle"
    /\ is_running
    /\ message_queue' = Log(message_queue, 1)
    /\ UNCHANGED <<is_running, gui_transactions, gui_blocks, miners, update_pc, message, next_tx>>

\* the update callback starts: the status widgets are set
begin_update ==
    /\ update_pc = "idle"
    /\ update_pc' = "drain"
    /\ UNCHANGED <<is_running, gui_transactions, gui_blocks, message_queue, miners, message,
                   next_tx>>

\* one statement of the loop of update: get_nowait takes the first entry
\* off the queue, and add_log_message(message) puts it on the queue again
\* under one more timestamp; queue.Empty ends the loop, and update is
\* scheduled again
drain ==
    /\ CASE update_pc = "drain" /\ message_queue = <<>> ->
              /\ update_pc' = "idle"
              /\ UNCHANGED <<message_queue, message>>
         [] update_pc = "drain" /\ message_queue # <<>> ->
              /\ message' = Head(message_queue)
              /\ message_queue' = Tail(message_queue)
              /\ update_pc' = "log"
         [] update_pc = "log" ->
              /\ message_queue' = Put(message_queue, Min(MaxStamps, message + 1))
              /\ message' = 0
              /\ update_pc' = "drain"
         [] OTHER -> FALSE
    /\ UNCHANGED <<is_running, gui_transactions, gui_blocks, miners, next_tx>>

----------------------------------------------------------------------------
(* Specifications *)

\* the pool alone
InitPool ==
    /\ PoolInit
    /\ NetInit(<<>>, 0, 0)
    /\ GuiInit
    /\ MineInit(DefaultDifficulty, ConstantHash(0), 0)

NextPool ==
    \/ AddTransaction /\ UNCHANGED <<mineVars, netVars, guiVars>>
    \/ GetTransactionsForBlock /\ UNCHANGED <<mineVars, netVars, guiVars>>

SpecPool == InitPool /\ [][NextPool]_vars

\* the engine with its default difficulty, under every hash function
InitMine ==
    /\ PoolInit
    /\ NetInit(<<>>, 0, 0)
    /\ GuiInit
    /\ \E hashfn \in [DataStrings -> HexDigests] :
          MineInit(DefaultDifficulty, hashfn, MineAdjustments)

NextMine ==
    \/ MineBlock /\ UNCHANGED <<poolVars, netVars, guiVars>>
    \/ AdjustDifficulty /\ UNCHANGED <<poolVars, netVars, guiVars>>

SpecMine == InitMine /\ [][NextMine]_vars

\* mine_block on an engine that has not mined before
FreshMineBlock ==
    /\ \A p \in Payloads : ~seen[p].called
    /\ MineBlock

\* fresh engines: the first mine_block call of an engine, after any
\* adjust_difficulty calls, under every hash function
NextFresh ==
    \/ FreshMineBlock /\ UNCHANGED <<poolVars, netVars, guiVars>>
    \/ AdjustDifficulty /\ UNCHANGED <<poolVars, netVars, guiVars>>

SpecFresh == InitMine /\ [][NextFresh]_vars

\* adjust_difficulty between two mine_block calls
IdleAdjustDifficulty == search_pc = "idle" /\ AdjustDifficulty

\* hash functions whose digests have no or four leading zero characters
BinaryHashes == [DataStrings -> {Digest(0), Digest(4)}]

\* mine_block iteration by iteration: a call that has been entered keeps
\* running until it returns
InitSearch ==
    /\ PoolInit
    /\ NetInit(<<>>, 0, 0)
    /\ GuiInit
    /\ \E hashfn \in BinaryHashes :
          MineInit(DefaultDifficulty, hashfn, MineAdjustments)

\* a step of the running call; the pool is not touched by it
MineStep == mine_step /\ UNCHANGED <<poolVars, netVars, guiVars>>

NextSearch ==
    \/ BeginMine /\ UNCHANGED <<poolVars, netVars, guiVars>>
    \/ MineStep
    \/ IdleAdjustDifficulty /\ UNCHANGED <<poolVars, netVars, guiVars>>

SpecSearch == InitSearch /\ [][NextSearch]_vars /\ WF_vars(MineStep)

\* the engine with every initial difficulty, under the sample hash functions
InitDifficulty ==
    /\ PoolInit
    /\ NetInit(<<>>, 0, 0)
    /\ GuiInit
    /\ \E d \in InitialDifficulties, hashfn \in SampleHashes :
          MineInit(d, hashfn, MaxAdjustments)

SpecDifficulty == InitDifficulty /\ [][NextMine]_vars

\* the engine beside the network: an empty pool and a miner that is not called
EngineIdle ==
    /\ PoolInit
    /\ MineInit(DefaultDifficulty, ConstantHash(0), 0)
    /\ GuiInit

\* the nodes' metrics under updates and congestion: registries of up to
\* MaxNodes nodes, as constructed or as earlier calls left them
InitMetrics ==
    /\ EngineIdle
    /\ \E n \in 0..MaxNodes : \E ns \in [1..n -> NodeSamples] :
          NetInit(ns, 0, MaxNetCalls)

\* the hardest congestion
HardCongestion == {[latency |-> 500, packet_loss |-> 10]}

NextMetrics ==
    \/ NodeUpdateMetrics(MetricDraws) /\ UNCHANGED <<poolVars, mineVars, guiVars>>
    \/ begin_tick /\ UNCHANGED <<poolVars, mineVars, guiVars>>
    \/ TickUpdate(MetricDraws) /\ UNCHANGED <<poolVars, mineVars, guiVars>>
    \/ TickLoad /\ UNCHANGED <<poolVars, mineVars, guiVars>>
    \/ TickEvent({"network_congestion", "packet_loss"}, HardCongestion)
           /\ UNCHANGED <<poolVars, mineVars, guiVars>>

SpecMetrics == InitMetrics /\ [][NextMetrics]_vars

\* a node that a disconnection has taken offline
OfflineHigh == [ConstructedHigh EXCEPT !.status = "offline", !.connection_count = 4]

\* one tick of a network of up to MaxNodes nodes, some of them offline, with
\* every event; nodes are added and the statistics read before and after it
InitNet ==
    /\ EngineIdle
    /\ \E n \in 0..MaxNodes :
          \E ns \in [1..n -> {ConstructedLow, OfflineHigh}] :
             NetInit(ns, 0, MaxTicks)

NextNet ==
    \/ AddNode(MaxNodes) /\ UNCHANGED <<poolVars, mineVars, guiVars>>
    \/ statistics /\ UNCHANGED <<poolVars, mineVars, guiVars>>
    \/ begin_tick /\ UNCHANGED <<poolVars, mineVars, guiVars>>
    \/ TickUpdate({DrawCalm}) /\ UNCHANGED <<poolVars, mineVars, guiVars>>
    \/ TickLoad /\ UNCHANGED <<poolVars, mineVars, guiVars>>
    \/ TickEvent(EventKinds, CongestionDraws) /\ UNCHANGED <<poolVars, mineVars, guiVars>>

SpecNet == InitNet /\ [][NextNet]_vars

\* a node that disconnections have taken offline and left with one connection
WornOffline == [ConstructedLow EXCEPT !.status = "offline", !.connection_count = 1]

\* the events of a tick on a fixed registry of up to MaxNodes nodes: a node
\* near its ceilings and a node that disconnections have worn down
InitEvents ==
    /\ EngineIdle
    /\ \E n \in 0..MaxNodes : \E ns \in [1..n -> {AgedHigh, WornOffline}] :
          NetInit(ns, 0, MaxTicks)

NextEvents ==
    \/ begin_tick /\ UNCHANGED <<poolVars, mineVars, guiVars>>
    \/ TickUpdate({DrawCalm}) /\ UNCHANGED <<poolVars, mineVars, guiVars>>
    \/ TickLoad /\ UNCHANGED <<poolVars, mineVars, guiVars>>
    \/ TickEvent(EventKinds, CongestionDraws) /\ UNCHANGED <<poolVars, mineVars, guiVars>>

SpecEvents == InitEvents /\ [][NextEvents]_vars

\* node i of a sample registry: the constructor's low and high draws in turn,
\* offline where a disconnection has taken effect
SampleNode(i, online) ==
    LET node == IF i % 2 = 1 THEN ConstructedLow ELSE ConstructedHigh IN
    IF online THEN node
    ELSE [node EXCEPT !.status = "offline", !.connection_count = @ - 1]

\* get_network_statistics on registries of up to MaxRegistry nodes with every
\* combination of statuses, before the first tick or after one
InitStats ==
    /\ EngineIdle
    /\ \E n \in 0..MaxRegistry : \E online \in [1..n -> BOOLEAN] :
          LET ns == [i \in 1..n |-> SampleNode(i, online[i])] IN
          \E load \in {0, NetworkLoad(ns, TotalBandwidth)} : NetInit(ns, load, 0)

NextStats ==
    \/ AddNode(MaxRegistry) /\ UNCHANGED <<poolVars, mineVars, guiVars>>
    \/ statistics /\ UNCHANGED <<poolVars, mineVars, guiVars>>

SpecStats == InitStats /\ [][NextStats]_vars

\* the emulator as constructed; the engine is not used by it
InitGui ==
    /\ EngineIdle
    /\ NetInit(<<>>, 0, 0)

\* the buttons of the main thread and the mining threads they start
NextGui ==
    \/ start_node /\ UNCHANGED <<poolVars, mineVars, netVars>>
    \/ stop_node /\ UNCHANGED <<poolVars, mineVars, netVars>>
    \/ generate_transaction /\ UNCHANGED <<poolVars, mineVars, netVars>>
    \/ \E m \in MinerIds : gui_mine_block(m) /\ UNCHANGED <<poolVars, mineVars, netVars>>
    \/ \E m \in MinerIds : mine_process(m) /\ UNCHANGED <<poolVars, mineVars, netVars>>

SpecGui == InitGui /\ [][NextGui]_vars

\* a round of the loop of update, which the main thread runs without a pause
Drain == drain /\ UNCHANGED <<poolVars, mineVars, netVars>>

\* the periodic update between the handlers of the main thread, with the
\* background thread of the node logging at any time
NextUpdate ==
    \/ start_node /\ UNCHANGED <<poolVars, mineVars, netVars>>
    \/ stop_node /\ UNCHANGED <<poolVars, mineVars, netVars>>
    \/ generate_transaction /\ UNCHANGED <<poolVars, mineVars, netVars>>
    \/ node_process /\ UNCHANGED <<poolVars, mineVars, netVars>>
    \/ begin_update /\ UNCHANGED <<poolVars, mineVars, netVars>>
    \/ Drain

SpecUpdate == InitGui /\ [][NextUpdate]_vars /\ WF_vars(Drain)

----------------------------------------------------------------------------
(* Properties of the transaction pool (SpecPool) *)

\* fees never increase along s
NonIncreasingFees(s) == \A i \in 1..(Len(s) - 1) : s[i].fee >= s[i + 1].fee

\* sub is s with some elements dropped, the others in the same order
RECURSIVE IsSubsequence(_, _)
IsSubsequence(sub, s) ==
    IF sub = <<>> THEN TRUE
    ELSE IF s = <<>> THEN FALSE
    ELSE IF Head(sub) = Head(s) THEN IsSubsequence(Tail(sub), Tail(s))
    ELSE IsSubsequence(sub, Tail(s))

\* C1: after get_transactions_for_block(n) with n >= 0 the returned
\* transactions are in non-increasing fee order, none of them is in the pool
\* any more, the pool is the old pool with elements dropped and the order
\* kept, and the pool is shorter by exactly min(n, old size).
C1_SelectForBlock ==
    (poolCall.op = "select" /\ poolCall.count >= 0) =>
        /\ NonIncreasingFees(poolCall.selected)
        /\ \A i \in 1..Len(poolCall.selected) :
               poolCall.selected[i] \notin Range(transactions)
        /\ IsSubsequence(transactions, poolCall.before)
        /\ Len(transactions) =
               Len(poolCall.before) - Min(poolCall.count, Len(poolCall.before))

\* C2: add_transaction returns true exactly when the pool was below
\* max_pool_size; then the pool is the old pool with tx appended; otherwise
\* the pool is unchanged.
C2_AddIffBelowCapacity ==
    poolCall.op = "add" =>
        /\ poolCall.accepted <=> (Len(poolCall.before) < max_pool_size)
        /\ poolCall.accepted => transactions = poolCall.before \o <<poolCall.tx>>
        /\ ~poolCall.accepted =>
               /\ transactions = poolCall.before
               /\ Len(transactions) = max_pool_size

\* an add on a full pool was refused
C2_Witness ==
    /\ poolCall.op = "add"
    /\ Len(poolCall.before) = max_pool_size
    /\ ~poolCall.accepted
    /\ transactions = poolCall.before

\* C13: the pool never holds more than max_pool_size transactions.
C13_PoolWithinCapacity == Len(transactions) <= max_pool_size

\* an accepted add filled the pool to max_pool_size
C13_Witness ==
    /\ poolCall.op = "add"
    /\ poolCall.accepted
    /\ Len(transactions) = max_pool_size

\* number of positions of s that hold x
Occurrences(s, x) == Cardinality({ i \in 1..Len(s) : s[i] = x })

\* C14: whatever add is called with, a transaction already pooled included,
\* each transaction occurs at most once in the pool, and no transaction
\* returned by get_transactions_for_block is still in the pool.
C14_NoDuplicateInPool ==
    /\ \A tx \in Transactions : Occurrences(transactions, tx) <= 1
    /\ poolCall.op = "select" =>
           \A i \in 1..Len(poolCall.selected) :
               poolCall.selected[i] \notin Range(transactions)

\* the elements of s with fee f, in the order of s
WithFee(s, f) == SelectSeq(s, LAMBDA tx : tx.fee = f)

IsPrefix(p, s) == Len(p) <= Len(s) /\ SubSeq(s, 1, Len(p)) = p

Fees == { tx.fee : tx \in Transactions }

\* C15: get_transactions_for_block breaks fee ties by insertion order: for
\* every fee the returned transactions of that fee are the first ones of that
\* fee in the pool, in pool order; with the fee order and with no transaction
\* of a higher fee left behind, this fixes the result for a given pool and
\* count.
C15_TiesByInsertionOrder ==
    poolCall.op = "select" =>
        /\ NonIncreasingFees(poolCall.selected)
        /\ \A f \in Fees :
               IsPrefix(WithFee(poolCall.selected, f), WithFee(poolCall.before, f))
        /\ \A f \in Fees, g \in Fees :
               (f > g /\ WithFee(poolCall.selected, g) # <<>>) =>
                   WithFee(poolCall.selected, f) = WithFee(poolCall.before, f)

\* of two pooled transactions of fee 10 only the one added first was returned
C15_Witness ==
    /\ poolCall.op = "select"
    /\ WithFee(poolCall.before, 10) = <<[tx_id |-> 4, fee |-> 10], [tx_id |-> 1, fee |-> 10]>>
    /\ WithFee(poolCall.selected, 10) = <<[tx_id |-> 4, fee |-> 10]>>

----------------------------------------------------------------------------
(* Properties of mine_block (SpecMine) *)

\* the nonces n of lo..hi at which the hash of block_data and n starts with
\* target
Solutions(block_data, target, lo, hi) ==
    { n \in lo..hi : StartsWith(sha256[DataToHash(block_data, n)], target) }

Least(S) == CHOOSE n \in S : \A m \in S : n <= m

\* C3: the nonce cursor resets per call: a mine_block call returns what the
\* search from nonce 0 returns for its payload and the current target,
\* whatever the engine's earlier calls were.
C3_SearchStartsAtZero ==
    mineCall.op = "mine" =>
        mineCall.ret = MineLoop(sha256, target_hash, mineCall.block_data, 0).ret

\* C4: a mine_block call with the payload and the target of an earlier call on
\* the same engine returns what that call returned: the same hash and nonce,
\* or no result both times.
C4_RepeatedCallAgrees ==
    [][\A p \in Payloads :
          ( /\ mineCall'.op = "mine"
            /\ mineCall'.block_data = p
            /\ seen[p].called
            /\ seen[p].target = target_hash
            /\ target_hash' = target_hash )
          => mineCall'.ret = seen[p].ret]_vars

\* C5: mine_block returns the smallest nonce of 0..NonceLimit, the limit
\* included, whose hash starts with the target, and no result only when no
\* nonce of that range has such a hash.
C5_LeastNonceLimitIncluded ==
    mineCall.op = "mine" =>
        LET S == Solutions(mineCall.block_data, target_hash, 0, NonceLimit) IN
        IF S = {} THEN ~mineCall.ret.found
        ELSE /\ mineCall.ret.found
             /\ mineCall.ret.nonce = Least(S)
             /\ mineCall.ret.hash = sha256[DataToHash(mineCall.block_data, Least(S))]

\* what mine_block returns on a fresh engine (cursor 0) whose target is k zero
\* characters
FreshMine(block_data, k) == MineLoop(sha256, Zeros(k), block_data, 0).ret

\* the target lengths some digest of the model can match, and 0
MatchableLengths == 0..(CHOOSE z \in LeadingZeros : \A y \in LeadingZeros : y <= z)

\* C16: for the same payload on fresh engines, if the search succeeds with a
\* target of k + 1 characters at nonce m, it succeeds with a target of k
\* characters at some nonce n <= m; so the longer target never succeeds where
\* the shorter one gives no result.
C16_LongerTargetNeverSooner ==
    \A p \in Payloads, k \in MatchableLengths :
        LET longer == FreshMine(p, k + 1)
            shorter == FreshMine(p, k) IN
        longer.found => (shorter.found /\ shorter.nonce <= longer.nonce)

\* a fresh engine with a target of two characters solved a payload at nonce 1
\* that a target of one character solves at nonce 0 and a target of five
\* characters does not solve
C16_Witness ==
    /\ mineCall.op = "mine"
    /\ target_hash = Zeros(2)
    /\ mineCall.ret = FreshMine(mineCall.block_data, 2)
    /\ mineCall.ret.found
    /\ mineCall.ret.nonce = 1
    /\ FreshMine(mineCall.block_data, 1).found
    /\ FreshMine(mineCall.block_data, 1).nonce = 0
    /\ ~FreshMine(mineCall.block_data, 5).found

----------------------------------------------------------------------------
(* Termination of mine_block (SpecSearch) *)

\* C11: every mine_block call that is entered returns, with a result or with
\* no result, and the cursor, the only nonce the loop hashes, never passes the
\* limit, whatever the payload, the target and the earlier calls.
C11_SearchTerminates ==
    /\ [](current_nonce \in 0..NonceLimit)
    /\ [](mineCall.op = "mine" =>
             \/ mineCall.ret = NoResult
             \/ /\ mineCall.ret.found
                /\ mineCall.ret.nonce \in 0..(NonceLimit - 1)
                /\ mineCall.ret.hash =
                       sha256[DataToHash(mineCall.block_data, mineCall.ret.nonce)])
    /\ [](search_pc = "loop" => <>(search_pc = "idle"))

\* a call on an engine that had mined before ran to the limit and returned
\* no result
C11_Witness ==
    /\ search_pc = "idle"
    /\ mineCall.op = "mine"
    /\ mineCall.ret = NoResult
    /\ current_nonce = NonceLimit
    /\ \E p \in Payloads : seen[p].called /\ seen[p].ret.found

----------------------------------------------------------------------------
(* Properties of update_metrics (SpecMetrics) *)

\* C12: right after an update_metrics call, made on its own or by a tick, and
\* whatever updates, ticks and congestion came before, the node's latency is
\* in [1, 500] ms, its bandwidth in [0.1, 200] MB/s, its cpu_usage in [0, 100]
\* percent and its memory_usage in [50, 4000] MB (in tenths here).
C12_MetricsClamped ==
    netCall.last = "update_metrics" =>
        LET node == nodes[netCall.node] IN
        /\ 10 <= node.latency /\ node.latency <= 5000
        /\ 1 <= node.bandwidth /\ node.bandwidth <= 2000
        /\ 0 <= node.cpu_usage /\ node.cpu_usage <= 1000
        /\ 500 <= node.memory_usage /\ node.memory_usage <= 40000

\* the update of a later tick has brought a node that congestion had pushed
\* above 500 ms back to the ceilings of all four metrics
C12_Witness ==
    /\ netCall.op = "simulate_network_activity"
    /\ netCall.last = "update_metrics"
    /\ net_budget = 0
    /\ LET node == nodes[netCall.node] IN
       /\ node.packet_loss = 40
       /\ node.latency = 5000
       /\ node.bandwidth = 2000
       /\ node.cpu_usage = 1000
       /\ node.memory_usage = 40000

\* C21: a step never lowers a node's block_height; it raises it by 0 or by
\* exactly 1, and a step that raises it is an update_metrics call on that
\* node: the load, the events and get_network_statistics leave it alone.
C21_BlockHeightStep ==
    [][\A i \in 1..Min(Len(nodes), Len(nodes')) :
          LET rise == nodes'[i].block_height - nodes[i].block_height IN
          /\ rise \in {0, 1}
          /\ rise = 1 => (netCall'.last = "update_metrics" /\ netCall'.node = i)]_vars

\* the update of a tick has given a node its new block
C21_Witness ==
    /\ netCall.op = "simulate_network_activity"
    /\ netCall.last = "update_metrics"
    /\ nodes[netCall.node].block_height = MinBlockHeight + 1

\* C30: under ticks a node's latency stays within [1, 650] ms: the update at
\* the start of a tick puts it into [1, 500], and the at most three
\* congestion events of the tick add at most 50 ms each.
C30_LatencyWithinTickRange ==
    \A i \in 1..Len(nodes) : 10 <= nodes[i].latency /\ nodes[i].latency <= 6500

\* a tick has ended with a node at 650 ms: clamped to 500 ms, then three
\* congestion events of 50 ms
C30_Witness ==
    /\ tick.pc = "idle"
    /\ netCall.op = "simulate_network_activity"
    /\ \E i \in 1..Len(nodes) : nodes[i].latency = 6500

----------------------------------------------------------------------------
(* Properties of get_network_statistics (SpecStats) *)

\* the indices of the online nodes of the registry
OnlineIndices == {i \in 1..Len(nodes) : nodes[i].status = "online"}

\* the sum of a metric over the online nodes of the registry
OnlineSum(metric(_)) ==
    SeqSum([i \in 1..Len(nodes) |-> IF i \in OnlineIndices THEN metric(nodes[i]) ELSE 0])

\* avg is the mean sum / count to one decimal: no further than half a tenth
IsMeanOf(avg, sum, count) ==
    /\ 2 * (avg * count - sum) <= count
    /\ 2 * (sum - avg * count) <= count

LatencyOf(node) == node.latency

BandwidthOf(node) == node.bandwidth

\* C17: on a non-empty registry get_network_statistics does not fault, its
\* average_latency and average_bandwidth are the means over the online nodes
\* only, and both are 0 when no node is online.
C17_AveragesOverOnline ==
    (netCall.op = "get_network_statistics" /\ Len(nodes) > 0) =>
        /\ ~netCall.ret.fault
        /\ netCall.ret.online_nodes = Cardinality(OnlineIndices)
        /\ IF OnlineIndices = {}
           THEN netCall.ret.average_latency = 0 /\ netCall.ret.average_bandwidth = 0
           ELSE /\ IsMeanOf(netCall.ret.average_latency, OnlineSum(LatencyOf),
                            Cardinality(OnlineIndices))
                /\ IsMeanOf(netCall.ret.average_bandwidth, OnlineSum(BandwidthOf),
                            Cardinality(OnlineIndices))

\* statistics of a registry with online and offline nodes whose mean over all
\* nodes differs from the mean over the online ones
C17_Witness ==
    /\ netCall.op = "get_network_statistics"
    /\ OnlineIndices # {}
    /\ Cardinality(OnlineIndices) < Len(nodes)
    /\ ~IsMeanOf(netCall.ret.average_latency,
                 SeqSum([i \in 1..Len(nodes) |-> nodes[i].latency]), Len(nodes))

\* C18: on a non-empty registry network_health is the first bucket the ratio
\* r = online / total falls in: excellent for r >= 0.9, good for
\* 0.7 <= r < 0.9, fair for 0.5 <= r < 0.7, poor for r < 0.5.
C18_HealthBuckets ==
    (netCall.op = "get_network_statistics" /\ Len(nodes) > 0) =>
        LET online == Cardinality(OnlineIndices)
            total == Len(nodes)
            label == netCall.ret.network_health IN
        /\ (10 * online >= 9 * total) => label = HealthLabels.excellent
        /\ (10 * online >= 7 * total /\ 10 * online < 9 * total) =>
               label = HealthLabels.good
        /\ (10 * online >= 5 * total /\ 10 * online < 7 * total) =>
               label = HealthLabels.fair
        /\ (10 * online < 5 * total) => label = HealthLabels.poor

\* four of five nodes online: good
C18_Witness ==
    /\ netCall.op = "get_network_statistics"
    /\ Len(nodes) = 5
    /\ Cardinality(OnlineIndices) = 4
    /\ netCall.ret.network_health = HealthLabels.good

\* C19: get_network_statistics on an empty registry does not fault and
\* returns zero values.
C19_EmptyRegistryNoFault ==
    (netCall.op = "get_network_statistics" /\ Len(nodes) = 0) =>
        /\ ~netCall.ret.fault
        /\ netCall.ret.total_nodes = 0
        /\ netCall.ret.online_nodes = 0
        /\ netCall.ret.average_latency = 0
        /\ netCall.ret.average_bandwidth = 0

----------------------------------------------------------------------------
(* Properties of simulate_network_activity (SpecNet) *)

\* the sum of network_io over every node of the registry
TotalNetworkIo == SeqSum([i \in 1..Len(nodes) |-> nodes[i].network_io])

\* a tick has set the load and no node was added since
AfterLoad ==
    \/ tick.pc = "events"
    \/ tick.pc = "idle" /\ netCall.op = "simulate_network_activity"

\* C20: once a tick has set it, network_load is the smaller of total_bandwidth
\* and the sum of network_io over all registered nodes, online or offline; the
\* load is always within [0, total_bandwidth], and the network_load_percent
\* that get_network_statistics reports is the load's share of the capacity to
\* one decimal and lies within [0, 100].
C20_LoadIsCappedSum ==
    /\ 0 <= network_load /\ network_load <= total_bandwidth
    /\ AfterLoad =>
          /\ TotalNetworkIo <= total_bandwidth => network_load = TotalNetworkIo
          /\ TotalNetworkIo > total_bandwidth => network_load = total_bandwidth
    /\ (netCall.op = "get_network_statistics" /\ ~netCall.ret.fault) =>
          /\ IsMeanOf(netCall.ret.network_load_percent, network_load * 1000,
                      total_bandwidth)
          /\ 0 <= netCall.ret.network_load_percent
          /\ netCall.ret.network_load_percent <= 1000

\* a tick has ended with the load cut to the capacity, an offline node
\* counted in the sum
C20_Witness ==
    /\ tick.pc = "idle"
    /\ netCall.op = "simulate_network_activity"
    /\ TotalNetworkIo > total_bandwidth
    /\ network_load = total_bandwidth
    /\ \E i \in 1..Len(nodes) :
          /\ nodes[i].status = "offline"
          /\ TotalNetworkIo - nodes[i].network_io <= total_bandwidth

----------------------------------------------------------------------------
(* Properties of the events of a tick (SpecEvents) *)

\* the step is an event of this kind
EventStep(kind) ==
    /\ tick.pc = "events"
    /\ tick' # tick
    /\ netCall'.last = kind

\* the step keeps the registry's size and every node but node i
OtherNodesSame(i) ==
    /\ Len(nodes') = Len(nodes)
    /\ \A j \in 1..Len(nodes) : j # i => nodes'[j] = nodes[j]

\* the number of online nodes of a registry
OnlineCount(ns) == Cardinality({i \in 1..Len(ns) : ns[i].status = "online"})

\* C22: no step shrinks the registry; a disconnection that takes effect sets
\* the status of exactly one node to offline and lowers that node's
\* connection_count by 1, or leaves it at 0, and touches nothing else;
\* connection_count is never negative.
C22_DisconnectKeepsRegistry ==
    /\ [](\A i \in 1..Len(nodes) : nodes[i].connection_count >= 0)
    /\ [][/\ Len(nodes') >= Len(nodes)
          /\ (EventStep("node_disconnection") /\ nodes' # nodes) =>
                LET i == netCall'.node IN
                /\ OtherNodesSame(i)
                /\ nodes'[i].status = "offline"
                /\ nodes'[i].connection_count =
                       IF nodes[i].connection_count > 0
                       THEN nodes[i].connection_count - 1 ELSE 0
                /\ nodes'[i] =
                       [nodes[i] EXCEPT !.status = nodes'[i].status,
                                        !.connection_count = nodes'[i].connection_count]
       ]_vars

\* a disconnection has taken a node that was online offline, and another has
\* left a node without connections
C22_Witness ==
    /\ netCall.last = "node_disconnection"
    /\ \E i \in 1..Len(nodes) :
          nodes[i].status = "offline" /\ nodes[i].connection_count = 4
    /\ \E i \in 1..Len(nodes) : nodes[i].connection_count = 0

\* C23: a connection event on a registry of one node or more raises the
\* connection_count of exactly one node by 1 and its uptime by 0.1, capped at
\* 99.9, and changes nothing else.
C23_ConnectOnAnyRegistry ==
    [][(EventStep("node_connection") /\ Len(nodes) >= 1) =>
          \E i \in 1..Len(nodes) :
              /\ OtherNodesSame(i)
              /\ nodes'[i].connection_count = nodes[i].connection_count + 1
              /\ nodes'[i].uptime = Min(999, nodes[i].uptime + 1)
              /\ nodes'[i] =
                     [nodes[i] EXCEPT !.connection_count = nodes'[i].connection_count,
                                      !.uptime = nodes'[i].uptime]
      ]_vars

\* C24: a tick draws between 1 and 3 events, and every event drawn is a
\* connection, a disconnection or a congestion.
C24_ThreeEventKinds ==
    /\ tick.pc = "events" => tick.left \in 1..3
    /\ netCall.last \notin {"", "update_metrics", "network_load"} =>
          netCall.last \in {"node_connection", "node_disconnection", "network_congestion"}

\* C25: a congestion event adds between 10 and 50 ms to the latency and
\* between 0.1 and 1.0 to the packet_loss of every registered node, online or
\* offline, with no ceiling, and changes nothing else.
C25_CongestionUnclamped ==
    [][EventStep("network_congestion") =>
          /\ Len(nodes') = Len(nodes)
          /\ \A i \in 1..Len(nodes) :
                /\ nodes'[i].latency - nodes[i].latency \in 100..500
                /\ nodes'[i].packet_loss - nodes[i].packet_loss \in 1..10
                /\ nodes'[i] = [nodes[i] EXCEPT !.latency = nodes'[i].latency,
                                                !.packet_loss = nodes'[i].packet_loss]
      ]_vars

\* a tick has ended on a congestion that left one node above 500 ms and
\* reached an offline node too
C25_Witness ==
    /\ tick.pc = "idle"
    /\ netCall.op = "simulate_network_activity"
    /\ netCall.last = "network_congestion"
    /\ \E i \in 1..Len(nodes) : nodes[i].latency > 5000
    /\ \E i \in 1..Len(nodes) : nodes[i].status = "offline" /\ nodes[i].packet_loss > 0

\* C29: a node that is offline stays offline in every step, so on a fixed
\* registry the number of online nodes, which get_network_statistics reports
\* as online_nodes, never grows.
C29_OfflineStaysOffline ==
    [][/\ \A i \in 1..Min(Len(nodes), Len(nodes')) :
             nodes[i].status = "offline" => nodes'[i].status = "offline"
       /\ Len(nodes') = Len(nodes) => OnlineCount(nodes') <= OnlineCount(nodes)
      ]_vars

\* a node taken offline in this tick has then had a connection event and is
\* still offline
C29_Witness ==
    /\ netCall.last = "node_connection"
    /\ netCall.node \in 1..Len(nodes)
    /\ nodes[netCall.node].status = "offline"
    /\ nodes[netCall.node].bandwidth > 1000
    /\ nodes[netCall.node].connection_count = 5

----------------------------------------------------------------------------
(* Properties of the mining threads of the emulator (SpecGui) *)

\* the transactions generate_transaction has created so far
CreatedTxs == 1..(next_tx - 1)

\* the blocks of the list that hold transaction tx
BlocksHolding(tx) == {k \in DOMAIN gui_blocks : tx \in Range(gui_blocks[k].transactions)}

\* C26: every block of the list has the height of its predecessor plus 1
\* (789456 for the first) and the hash of its predecessor as prev_hash (the
\* zero hash for the first), so no two blocks share a height.
C26_BlocksChained ==
    \A k \in DOMAIN gui_blocks :
        /\ gui_blocks[k].height = GenesisHeight + k - 1
        /\ gui_blocks[k].prev_hash =
               IF k = 1 THEN GenesisPrevHash ELSE gui_blocks[k - 1].block_hash
        /\ \A j \in DOMAIN gui_blocks : j # k => gui_blocks[j].height # gui_blocks[k].height

\* C27: every created transaction is, in every state, either in the pending
\* list or in exactly one block: never in both, never in two blocks, never in
\* neither.
C27_EachTxInOnePlace ==
    \A tx \in CreatedTxs :
        \/ /\ tx \in Range(gui_transactions)
           /\ BlocksHolding(tx) = {}
        \/ /\ tx \notin Range(gui_transactions)
           /\ Cardinality(BlocksHolding(tx)) = 1

----------------------------------------------------------------------------
(* Properties of the periodic update of the emulator (SpecUpdate) *)

\* C28: every call of update leaves its loop with the queue empty and is
\* scheduled again.
C28_UpdateTerminates ==
    (update_pc # "idle") ~> (update_pc = "idle" /\ message_queue = <<>>)

----------------------------------------------------------------------------
(* Properties of adjust_difficulty (SpecDifficulty) *)

\* C6: adjust_difficulty(t) leaves trunc(1.5 * difficulty) when t < 300,
\* trunc(0.75 * difficulty) when t > 1200, and the difficulty unchanged when
\* 300 <= t <= 1200, the values 300 and 1200 included.
C6_AdjustByBlockTime ==
    mineCall.op = "adjust" =>
        LET t == mineCall.block_time
            old == mineCall.old_difficulty IN
        /\ t < 300 => difficulty = (15 * old) \div 10
        /\ t > 1200 => difficulty = (75 * old) \div 100
        /\ (300 <= t /\ t <= 1200) => difficulty = old

\* a block time of exactly 300 left a difficulty above 1 unchanged
C6_Witness ==
    /\ mineCall.op = "adjust"
    /\ mineCall.block_time = 300
    /\ mineCall.old_difficulty = 1500000
    /\ difficulty = 1500000

\* C7 as claimed: for every positive difficulty adjust_difficulty(100) leaves
\* a strictly larger difficulty, adjust_difficulty(1300) a strictly smaller
\* one, and adjust_difficulty(600) the same one.
C7_StrictChange ==
    (mineCall.op = "adjust" /\ mineCall.old_difficulty >= 1) =>
        /\ mineCall.block_time = 100 => difficulty > mineCall.old_difficulty
        /\ mineCall.block_time = 1300 => difficulty < mineCall.old_difficulty
        /\ mineCall.block_time = 600 => difficulty = mineCall.old_difficulty

\* C7 as amended: adjust_difficulty(100) leaves a strictly larger difficulty
\* for every difficulty of at least 2 and leaves difficulty 1 at 1;
\* adjust_difficulty(1300) leaves a strictly smaller difficulty and
\* adjust_difficulty(600) the same difficulty for every positive difficulty.
C7_StrictChangeAboveOne ==
    (mineCall.op = "adjust" /\ mineCall.old_difficulty >= 1) =>
        /\ (mineCall.block_time = 100 /\ mineCall.old_difficulty >= 2)
               => difficulty > mineCall.old_difficulty
        /\ (mineCall.block_time = 100 /\ mineCall.old_difficulty = 1)
               => difficulty = 1
        /\ mineCall.block_time = 1300 => difficulty < mineCall.old_difficulty
        /\ mineCall.block_time = 600 => difficulty = mineCall.old_difficulty

\* adjust_difficulty(100) was called at difficulty 1 and left it at 1
C7_Witness ==
    /\ mineCall.op = "adjust"
    /\ mineCall.block_time = 100
    /\ mineCall.old_difficulty = 1
    /\ difficulty = 1

\* C8: the difficulty is a positive integer in every state reached from a
\* positive initial difficulty.
C8_DifficultyPositive == difficulty \in Nat /\ difficulty >= 1

\* C9: in every state, from construction on, target_hash is exactly
\* floor(difficulty / 1000000) + 1 zero characters.
C9_TargetFollowsDifficulty ==
    /\ Len(target_hash) = (difficulty \div 1000000) + 1
    /\ \A i \in 1..Len(target_hash) : target_hash[i] = "0"

\* C10 as claimed: with a difficulty of at most 999999 the target is empty
\* and every mine_block call returns a result with nonce 0.
C10_EmptyTargetBelowMillion ==
    difficulty <= 999999 =>
        /\ Len(target_hash) = 0
        /\ mineCall.op = "mine" => (mineCall.ret.found /\ mineCall.ret.nonce = 0)

\* C10 as amended: with a difficulty of 0..999999 the target is never empty:
\* it is the constructor's four zero characters or, after an
\* adjust_difficulty call, one zero character; a mine_block call returns a
\* result only at a nonce whose hash starts with that target, so with nonce 0
\* only when the hash at nonce 0 does.
C10_NonEmptyTargetBelowMillion ==
    (0 <= difficulty /\ difficulty <= 999999) =>
        /\ target_hash \in {Zeros(1), Zeros(4)}
        /\ mineCall.op = "adjust" => target_hash = Zeros(1)
        /\ (mineCall.op = "mine" /\ mineCall.ret.found) =>
               /\ mineCall.ret.hash =
                      sha256[DataToHash(mineCall.block_data, mineCall.ret.nonce)]
               /\ StartsWith(mineCall.ret.hash, target_hash)
               /\ mineCall.ret.hash[1] = "0"

\* with difficulty 750000 and target "0" a mine_block call returned nonce 1,
\* the hash at nonce 0 having no leading zero
C10_Witness ==
    /\ difficulty = 750000
    /\ target_hash = Zeros(1)
    /\ mineCall.op = "mine"
    /\ mineCall.ret.found
    /\ mineCall.ret.nonce = 1
    /\ ~StartsWith(sha256[DataToHash(mineCall.block_data, 0)], target_hash)

====
